---- MODULE Spec2Model ----
(***************************************************************************)
(* Model of src/core/verifier.rs: the token verification engine.           *)
(*                                                                         *)
(* State: the four tables the verifier reads and writes                    *)
(* (roblox_verification_keys, roblox_verification_cooldown,                *)
(* roblox_user_info, discord_user_info), the in-memory TokenContext held   *)
(* behind the RwLock, the configuration values the verifier reads through  *)
(* ConfigManager, and the wall clock; for the calls that run on threads,   *)
(* the holder of the store's transaction, the state of the RwLock and each *)
(* thread's position in its call.                                          *)
(*                                                                         *)
(* Abstractions:                                                           *)
(*  - HMAC-SHA256 is an injective function of (key, data): a token is the  *)
(*    pair <<key, data>> it was derived from. Each generated key is fresh, *)
(*    and stands for its own 64 random bytes.                              *)
(*  - Time is an integer number of seconds; all clock reads of one         *)
(*    try_verify call return the same value.                               *)
(*  - The tables have the primary keys of the schema (one row per          *)
(*    discord_user_id / roblox_user_id; keys.id is assigned by the store,  *)
(*    increasing), and no other uniqueness constraint.                     *)
(*  - A key row holds its change_reason as the stored text; the context    *)
(*    holds it decoded.                                                    *)
(*  - The database module is not part of the file modelled: a transaction  *)
(*    keeps the writes of a closure that returns Ok and discards those of  *)
(*    one that returns Err, and an immediate transaction begins only when  *)
(*    no other transaction holds the store.                                *)
(***************************************************************************)
EXTENDS Integers, Sequences, FiniteSets, TLC

VARIABLES
    keys,       \* table roblox_verification_keys: a set of rows
    token_ctx,  \* Verifier.token_ctx: [current, history]
    cooldown,   \* table roblox_verification_cooldown: discord id -> row or NoRow
    user_info,  \* table roblox_user_info: roblox id -> row or NoRow
    binding,    \* table discord_user_info: discord id -> row or NoRow
    config,     \* ConfigManager values that change at run time
    clock,      \* Utc::now() / SystemTime::now(), in seconds
    accepted,   \* history: every (roblox id, key_id, epoch) phase 2 has recorded
    last,       \* history: the last operation and what it returned
    store_txn,  \* the thread whose immediate transaction holds the store, or NoThread
    rwlock,     \* Verifier.token_ctx's RwLock: [writer, readers]
    threads     \* thread -> the call it is in: position and local variables

vars == <<keys, token_ctx, cooldown, user_info, binding, config, clock, accepted, last,
          store_txn, rwlock, threads>>

\* What a call that runs without another thread leaves alone.
conc == <<store_txn, rwlock, threads>>

(***************************************************************************)
(* Program constants                                                       *)
(***************************************************************************)
TOKEN_VERSION == 1
HISTORY_COUNT == 5

(***************************************************************************)
(* Bounds of the model                                                     *)
(***************************************************************************)
MaxClock == 1        \* the clock runs 0..MaxClock under Spec
MaxBindClock == 1    \* the clock runs 0..MaxBindClock under SpecBind
MaxKeys == 2         \* rows of the key table under Spec
MaxRotations == 7    \* rows of the key table under SpecKeys
MaxFreshClock == 2   \* the clock runs 0..MaxFreshClock under SpecFresh
MaxGateClock == 3    \* the clock runs 0..MaxGateClock under SpecGate
MaxFailClock == 1    \* the clock runs 0..MaxFailClock under SpecFail
MaxCodecKeys == 3    \* rows of the key table under SpecCodec
MaxThreadKeys == 2   \* rows of the key table under SpecThreads
MaxAppendKeys == 3   \* rows of the key table at a call under SpecAppend
MaxFreshKeys == 2    \* rows of the key table under SpecFresh

DiscordIds == {"d1", "d2"}
RobloxIds == {"r1", "r2"}
Increments == {1, 2}             \* values of TokenValiditySeconds
OldVersion == TOKEN_VERSION - 1  \* a key written by an older build

(***************************************************************************)
(* Configuration read through self.config.get                              *)
(***************************************************************************)
VerificationAttemptLimit == 2
VerificationCooldownSeconds == config.VerificationCooldownSeconds
ReverificationTimeoutSeconds == 1

Threads == {"t1", "t2"}
NoThread == "none"
NoRow == [exists |-> FALSE]
NULL == "NULL"
None == [some |-> FALSE]
Some(v) == [some |-> TRUE, val |-> v]
Err == [ok |-> FALSE]
Ok(v) == [ok |-> TRUE, val |-> v]

Min(a, b) == IF a <= b THEN a ELSE b

(***************************************************************************)
(* RekeyReason                                                             *)
(***************************************************************************)
InitialKey == [variant |-> "InitialKey"]
ManualRekey == [variant |-> "ManualRekey"]
OutdatedVersion == [variant |-> "OutdatedVersion"]
TimeIncrementChanged == [variant |-> "TimeIncrementChanged"]
Unknown(s) == [variant |-> "Unknown", text |-> s]

KnownReasonTexts == {"InitialKey", "ManualRekey", "OutdatedVersion", "TimeIncrementChanged"}
\* The change_reason texts a stored key row can hold: the names this build
\* writes, and one it does not.
ReasonTexts == KnownReasonTexts \cup {"SecretLeaked"}

RekeyReason ==
    {InitialKey, ManualRekey, OutdatedVersion, TimeIncrementChanged} \cup
    {Unknown(s) : s \in ReasonTexts}

\* impl ToSql for RekeyReason: the text stored for a reason.
to_sql(reason) == IF reason.variant = "Unknown" THEN reason.text ELSE reason.variant

\* impl FromSql for RekeyReason: Err is the bail! of the last arm.
from_sql(text) == IF text \in KnownReasonTexts THEN Ok([variant |-> text]) ELSE Err

\* impl FromSqlRow for TokenParameters: the row with its reason decoded.
from_sql_row(row) ==
    LET reason == from_sql(row.change_reason)
    IN  IF reason.ok THEN Ok([row EXCEPT !.change_reason = reason.val]) ELSE Err

(***************************************************************************)
(* Token                                                                   *)
(***************************************************************************)
\* Text that Token::from_str rejects (wrong length, or a non-letter).
Malformed == [wellformed |-> FALSE]

\* sha256_token: the six letters derived from HMAC(key, data).
sha256_token(key, data) == [wellformed |-> TRUE, key |-> key, data |-> data]

\* Token::from_str: Some(token) for six letters, None for anything else.
Token_from_str(text) == IF text.wellformed THEN Some(text) ELSE None

(***************************************************************************)
(* TokenParameters                                                         *)
(***************************************************************************)
current_epoch(p, now) == now \div p.time_increment

make_token(p, user_id, epoch) == sha256_token(p.key, <<TOKEN_VERSION, user_id, epoch>>)

\* Variant of TokenParameters_check_token: the epoch after the current one is
\* not tried.
TokenParameters_check_token_noNext(p, user, token, now) ==
    LET epoch == current_epoch(p, now)
    IN  IF token = make_token(p, user, epoch) THEN Some(epoch)
        ELSE IF token = make_token(p, user, epoch - 1) THEN Some(epoch - 1)
        ELSE None

\* for i in &[1, 0, -1]: the first epoch + i whose token matches.
TokenParameters_check_token(p, user, token, now) ==
    LET epoch == current_epoch(p, now)
    IN  IF token = make_token(p, user, epoch + 1) THEN Some(epoch + 1)
        ELSE IF token = make_token(p, user, epoch) THEN Some(epoch)
        ELSE IF token = make_token(p, user, epoch - 1) THEN Some(epoch - 1)
        ELSE None

(***************************************************************************)
(* TokenContext                                                            *)
(***************************************************************************)
\* Variant of OrderByIdDesc: ORDER BY id ASC.
RECURSIVE OrderByIdAsc(_)
OrderByIdAsc(rows) ==
    IF rows = {} THEN <<>>
    ELSE LET low == CHOOSE r \in rows : \A q \in rows : r.id <= q.id
         IN  <<low>> \o OrderByIdAsc(rows \ {low})

\* ORDER BY id DESC
RECURSIVE OrderByIdDesc(_)
OrderByIdDesc(rows) ==
    IF rows = {} THEN <<>>
    ELSE LET top == CHOOSE r \in rows : \A q \in rows : q.id <= r.id
         IN  <<top>> \o OrderByIdDesc(rows \ {top})

\* LIMIT n
Limit(seq, n) == SubSeq(seq, 1, Min(Len(seq), n))

\* get_all::<TokenParameters>: every row decoded, or the first error.
get_all(rows) ==
    IF \E i \in 1..Len(rows) : ~from_sql_row(rows[i]).ok THEN Err
    ELSE Ok([i \in 1..Len(rows) |-> from_sql_row(rows[i]).val])

\* Variant of from_db_internal: the query has no LIMIT.
from_db_internal_noLimit(tbl) ==
    LET results == get_all(OrderByIdDesc(tbl))
    IN  IF ~results.ok THEN Err
        ELSE IF Len(results.val) = 0 THEN Ok(None)
        ELSE Ok(Some([current |-> results.val[1], history |-> Tail(results.val)]))

\* SELECT * FROM roblox_verification_keys ORDER BY id DESC LIMIT 1 + HISTORY_COUNT
from_db_internal(tbl) ==
    LET results == get_all(Limit(OrderByIdDesc(tbl), 1 + HISTORY_COUNT))
    IN  IF ~results.ok THEN Err
        ELSE IF Len(results.val) = 0 THEN Ok(None)
        ELSE Ok(Some([current |-> results.val[1], history |-> Tail(results.val)]))

\* The id the store assigns to an inserted key row.
NextKeyId(tbl) == IF tbl = {} THEN 1 ELSE 1 + (CHOOSE m \in {r.id : r \in tbl} : \A r \in tbl : r.id <= m)

\* INSERT INTO roblox_verification_keys (key, time_increment, version,
\* change_reason): the store assigns the id.
InsertKey(tbl, time_increment, change_reason) ==
    LET id == NextKeyId(tbl)
    IN  tbl \cup {[id |-> id, key |-> id, time_increment |-> time_increment,
                   version |-> TOKEN_VERSION, change_reason |-> to_sql(change_reason)]}

\* INSERT INTO roblox_verification_keys, then from_db_internal. The result is
\* Ok([keys, ctx]): the table and the context after the call; an Err leaves
\* the enclosing transaction uncommitted.
new_in_db(tbl, time_increment, change_reason) ==
    LET tbl2 == InsertKey(tbl, time_increment, change_reason)
        loaded == from_db_internal(tbl2)
    IN  IF loaded.ok /\ loaded.val.some
        THEN Ok([keys |-> tbl2, ctx |-> loaded.val.val])
        ELSE Err

TokenContext_rekey(tbl, time_increment) == new_in_db(tbl, time_increment, ManualRekey)

\* Variant of from_db: the version is tested before the time increment.
from_db_versionFirst(tbl, time_increment) ==
    LET x == from_db_internal(tbl)
    IN  IF ~x.ok THEN Err
        ELSE IF x.val.some
        THEN IF x.val.val.current.version # TOKEN_VERSION
             THEN new_in_db(tbl, time_increment, OutdatedVersion)
             ELSE IF x.val.val.current.time_increment # time_increment
             THEN new_in_db(tbl, time_increment, TimeIncrementChanged)
             ELSE Ok([keys |-> tbl, ctx |-> x.val.val])
        ELSE new_in_db(tbl, time_increment, InitialKey)

\* The branches of from_db on what from_db_internal returned: the reason of
\* the key to create, or None when the stored context is returned.
from_db_reason(x, time_increment) ==
    IF x.some
    THEN IF x.val.current.time_increment # time_increment
         THEN Some(TimeIncrementChanged)
         ELSE IF x.val.current.version # TOKEN_VERSION
         THEN Some(OutdatedVersion)
         ELSE None
    ELSE Some(InitialKey)

from_db(tbl, time_increment) ==
    LET x == from_db_internal(tbl)
    IN  IF ~x.ok THEN Err
        ELSE LET reason == from_db_reason(x.val, time_increment)
             IN  IF reason.some
                 THEN new_in_db(tbl, time_increment, reason.val)
                 ELSE Ok([keys |-> tbl, ctx |-> x.val.val])

Verified(key_id, epoch) == [tag |-> "Verified", key_id |-> key_id, epoch |-> epoch]
Outdated(reason) == [tag |-> "Outdated", reason |-> reason]
NotVerified == [tag |-> "NotVerified"]
MalformedToken == [tag |-> "MalformedToken"]

\* Index of the first history entry the token checks under, 0 when none does.
FirstMatch(history, user, token, now) ==
    LET hits == {i \in 1..Len(history) :
                    TokenParameters_check_token(history[i], user, token, now).some}
    IN  IF hits = {} THEN 0 ELSE CHOOSE i \in hits : \A j \in hits : i <= j

\* Variant of TokenContext_check_token: Outdated carries the reason of the
\* history key that matched.
TokenContext_check_token_historyReason(ctx, user, text, now) ==
    LET parsed == Token_from_str(text)
    IN  IF ~parsed.some THEN MalformedToken
        ELSE LET cur == TokenParameters_check_token(ctx.current, user, parsed.val, now)
                 hit == FirstMatch(ctx.history, user, parsed.val, now)
             IN  IF cur.some THEN Verified(ctx.current.id, cur.val)
                 ELSE IF hit # 0
                      THEN Outdated(ctx.history[hit].change_reason)
                      ELSE NotVerified

\* TokenContext::check_token; MalformedToken stands for the error of from_str.
TokenContext_check_token(ctx, user, text, now) ==
    LET parsed == Token_from_str(text)
    IN  IF ~parsed.some THEN MalformedToken
        ELSE LET cur == TokenParameters_check_token(ctx.current, user, parsed.val, now)
             IN  IF cur.some THEN Verified(ctx.current.id, cur.val)
                 ELSE IF FirstMatch(ctx.history, user, parsed.val, now) # 0
                      THEN Outdated(ctx.current.change_reason)
                      ELSE NotVerified

(***************************************************************************)
(* Verifier                                                                *)
(***************************************************************************)
\* Key tables a database can hold before the verifier is constructed.
StoredKey(id, inc, ver, reason) ==
    [id |-> id, key |-> id, time_increment |-> inc, version |-> ver, change_reason |-> reason]

InitialKeyTables ==
    {{}} \cup {{StoredKey(1, inc, ver, "InitialKey")} :
                  inc \in Increments, ver \in {OldVersion, TOKEN_VERSION}}

\* No Verifier: Verifier::new returned an error.
NoContext == [current |-> [id |-> 0], history |-> <<>>]

NoStatus == [tag |-> "None"]

\* A thread that is in no call.
Idle ==
    [pc |-> "idle", op |-> "none", discord_id |-> NULL, roblox_id |-> NULL,
     token |-> Malformed, force |-> FALSE, time_increment |-> 0, cur_id |-> 0,
     status |-> NoStatus, seen |-> NoRow, reason |-> None, at_call |-> {},
     inserted |-> 0, ret |-> NoContext, result |-> "None"]

\* Verifier::new on a database with no cooldown, replay or binding rows.
\* `last` keeps the key table the call found.
InitWith(tables, configs) ==
    \E tbl \in tables, cfg \in configs :
        LET r == from_db(tbl, cfg.TokenValiditySeconds)
        IN  /\ keys = IF r.ok THEN r.val.keys ELSE tbl
            /\ token_ctx = IF r.ok THEN r.val.ctx ELSE NoContext
            /\ config = cfg
            /\ cooldown = [d \in DiscordIds |-> NoRow]
            /\ user_info = [u \in RobloxIds |-> NoRow]
            /\ binding = [d \in DiscordIds |-> NoRow]
            /\ clock = 0
            /\ accepted = {}
            /\ last = [op |-> "new", ok |-> r.ok, stored |-> tbl]
            /\ store_txn = NoThread
            /\ rwlock = [writer |-> NoThread, readers |-> {}]
            /\ threads = [t \in Threads |-> Idle]

Cooldowns == {1, 2}
Configs ==
    [TokenValiditySeconds : Increments, AllowReverification : BOOLEAN,
     VerificationCooldownSeconds : Cooldowns]
ShortCooldown == {cfg \in Configs : cfg.VerificationCooldownSeconds = 1}

\* Variant of Verifier_rekey: the id is compared after the context is replaced.
Verifier_rekey_lateRead(force, maxKeys) ==
    LET r == IF force THEN TokenContext_rekey(keys, config.TokenValiditySeconds)
                      ELSE from_db(keys, config.TokenValiditySeconds)
    IN  /\ token_ctx # NoContext
        /\ r.ok
        /\ Cardinality(r.val.keys) <= maxKeys
        /\ keys' = r.val.keys
        /\ token_ctx' = r.val.ctx
        /\ last' = [op |-> "rekey", ok |-> TRUE, force |-> force, stored |-> keys,
                    changed |-> (r.val.ctx.current.id # r.val.ctx.current.id)]
        /\ UNCHANGED <<cooldown, user_info, binding, config, clock, accepted, conc>>

\* Verifier::rekey(force). `last` keeps the key table the call found. An Err
\* of the store returns before the assignment to *lock.
Verifier_rekey(force, maxKeys) ==
    LET cur_id == token_ctx.current.id
        r == IF force THEN TokenContext_rekey(keys, config.TokenValiditySeconds)
                      ELSE from_db(keys, config.TokenValiditySeconds)
    IN  /\ token_ctx # NoContext
        /\ IF r.ok
           THEN /\ Cardinality(r.val.keys) <= maxKeys
                /\ keys' = r.val.keys
                /\ token_ctx' = r.val.ctx
                /\ last' = [op |-> "rekey", ok |-> TRUE, force |-> force, stored |-> keys,
                            changed |-> (cur_id # r.val.ctx.current.id)]
           ELSE /\ UNCHANGED <<keys, token_ctx>>
                /\ last' = [op |-> "rekey", ok |-> FALSE, force |-> force, stored |-> keys]
        /\ UNCHANGED <<cooldown, user_info, binding, config, clock, accepted, conc>>

\* The operator changes TokenValiditySeconds or AllowReverification.
SetConfig(configs) ==
    \E cfg \in configs :
        /\ cfg # config
        /\ config' = cfg
        /\ last' = [op |-> "config"]
        /\ UNCHANGED <<keys, token_ctx, cooldown, user_info, binding, clock, accepted, conc>>

\* Time passes.
TickTo(maxClock) ==
    /\ clock < maxClock
    /\ clock' = clock + 1
    /\ last' = [op |-> "tick"]
    /\ UNCHANGED <<keys, token_ctx, cooldown, user_info, binding, config, accepted, conc>>

(***************************************************************************)
(* Verifier::try_verify, one transaction per phase                         *)
(***************************************************************************)
\* Variant of InCooldown: the cooldown still holds at cooldown_ends itself.
InCooldown_inclusive(attempt_count, last_attempt, now) ==
    LET cooldown_ends == last_attempt + VerificationCooldownSeconds
    IN  attempt_count >= VerificationAttemptLimit /\ now <= cooldown_ends

\* if attempt_count >= max_attempts && now < cooldown_ends
InCooldown(attempt_count, last_attempt, now) ==
    LET cooldown_ends == last_attempt + VerificationCooldownSeconds
    IN  attempt_count >= VerificationAttemptLimit /\ now < cooldown_ends

\* Variant of CheckCooldown: a refused attempt still stamps last_attempt.
CheckCooldown_stampRefused(tbl, discord_id, now) ==
    LET attempt_info == tbl[discord_id]
        limited == /\ attempt_info.exists
                   /\ InCooldown(attempt_info.attempt_count, attempt_info.last_attempt, now)
        new_attempt_count == IF attempt_info.exists THEN attempt_info.attempt_count + 1 ELSE 1
    IN  IF limited
        THEN [ok |-> FALSE,
              cooldown |-> [tbl EXCEPT ![discord_id].last_attempt = now]]
        ELSE [ok |-> TRUE,
              cooldown |-> [tbl EXCEPT ![discord_id] =
                               [exists |-> TRUE, last_attempt |-> now,
                                attempt_count |-> new_attempt_count]]]

\* Phase 1 ("Check cooldown"): ok = FALSE is the cmd_error! of the gate.
CheckCooldown(tbl, discord_id, now) ==
    LET attempt_info == tbl[discord_id]
        limited == /\ attempt_info.exists
                   /\ InCooldown(attempt_info.attempt_count, attempt_info.last_attempt, now)
        new_attempt_count == IF attempt_info.exists THEN attempt_info.attempt_count + 1 ELSE 1
    IN  IF limited
        THEN [ok |-> FALSE, cooldown |-> tbl]
        ELSE [ok |-> TRUE,
              cooldown |-> [tbl EXCEPT ![discord_id] =
                               [exists |-> TRUE, last_attempt |-> now,
                                attempt_count |-> new_attempt_count]]]

\* Variant of AlreadyUsed: only a strictly older epoch counts as used.
AlreadyUsed_strictEpoch(last_id, last_epoch, key_id, epoch) ==
    last_id >= key_id /\ last_epoch > epoch

\* Variant of AlreadyUsed: either axis alone counts as used.
AlreadyUsed_eitherAxis(last_id, last_epoch, key_id, epoch) ==
    last_id >= key_id \/ last_epoch >= epoch

\* if last_id >= key_id && last_epoch >= epoch
AlreadyUsed(last_id, last_epoch, key_id, epoch) == last_id >= key_id /\ last_epoch >= epoch

\* Phase 2 ("Check token"): classify under the read lock, then the replay check.
CheckToken(ctx, tbl, roblox_id, token, now) ==
    LET status == TokenContext_check_token(ctx, roblox_id, token, now)
        last_key == tbl[roblox_id]
    IN  IF status.tag = "MalformedToken"
        THEN [result |-> "MalformedToken", status |-> status, user_info |-> tbl]
        ELSE IF status.tag = "Verified"
        THEN IF /\ last_key.exists
                /\ AlreadyUsed(last_key.last_key_id, last_key.last_key_epoch,
                               status.key_id, status.epoch)
             THEN [result |-> "ReplayedToken", status |-> status, user_info |-> tbl]
             ELSE [result |-> "Ok", status |-> status,
                   user_info |-> [tbl EXCEPT ![roblox_id] =
                                     [exists |-> TRUE, last_key_id |-> status.key_id,
                                      last_key_epoch |-> status.epoch, last_updated |-> now]]]
        ELSE IF status.tag = "Outdated"
        THEN [result |-> "StaleVerifier", status |-> status, user_info |-> tbl]
        ELSE [result |-> "InvalidToken", status |-> status, user_info |-> tbl]

\* REPLACE INTO discord_user_info (discord_user_id, roblox_user_id, last_updated)
ReplaceBinding(tbl, discord_id, roblox_id, now) ==
    [tbl EXCEPT ![discord_id] =
        [exists |-> TRUE, roblox_user_id |-> roblox_id, last_updated |-> now]]

\* UPDATE discord_user_info SET roblox_user_id = NULL WHERE roblox_user_id = ?1
ClearBindings(tbl, roblox_id) ==
    [d \in DOMAIN tbl |->
        IF tbl[d].exists /\ tbl[d].roblox_user_id = roblox_id
        THEN [tbl[d] EXCEPT !.roblox_user_id = NULL]
        ELSE tbl[d]]

\* Variant of RobloxCount: the query filters on the wrong column.
RobloxCount_wrongColumn(tbl, roblox_id) ==
    Cardinality({d \in DOMAIN tbl : tbl[d].exists /\ d = roblox_id})

\* SELECT COUNT(*) from discord_user_info WHERE roblox_user_id = ?1
RobloxCount(tbl, roblox_id) ==
    Cardinality({d \in DOMAIN tbl : tbl[d].exists /\ tbl[d].roblox_user_id = roblox_id})

\* Phase 3 ("Attempt to verify user").
VerifyUser(tbl, allow_reverification, discord_id, roblox_id, now) ==
    LET row == tbl[discord_id]
        verified_as == IF row.exists /\ row.roblox_user_id # NULL
                       THEN Some(row.roblox_user_id) ELSE None
        roblox_count == RobloxCount(tbl, roblox_id)
    IN  IF ~allow_reverification
        THEN IF verified_as.some
             THEN [result |-> "AlreadyVerified", binding |-> tbl]
             ELSE IF roblox_count # 0
             THEN [result |-> "Conflict", binding |-> tbl]
             ELSE [result |-> "Ok", binding |-> ReplaceBinding(tbl, discord_id, roblox_id, now)]
        ELSE IF row.exists
             THEN IF now < row.last_updated + ReverificationTimeoutSeconds
                  THEN [result |-> "TooSoon", binding |-> tbl]
                  ELSE [result |-> "Ok",
                        binding |-> ReplaceBinding(ClearBindings(tbl, roblox_id),
                                                   discord_id, roblox_id, now)]
             ELSE [result |-> "Ok", binding |-> ReplaceBinding(tbl, discord_id, roblox_id, now)]

\* Variant of Verifier_try_verify: the record of phase 2 is written only when
\* phase 3 succeeds.
Verifier_try_verify_consumeOnSuccess(discord_id, roblox_id, token, track) ==
    LET p1 == CheckCooldown(cooldown, discord_id, clock)
        p2 == CheckToken(token_ctx, user_info, roblox_id, token, clock)
        p3 == VerifyUser(binding, config.AllowReverification, discord_id, roblox_id, clock)
        call == [op |-> "try_verify", discord_id |-> discord_id, roblox_id |-> roblox_id]
    IN  /\ token_ctx # NoContext
        /\ cooldown' = p1.cooldown
        /\ UNCHANGED <<keys, token_ctx, config, clock, accepted, conc>>
        /\ IF ~p1.ok
           THEN /\ last' = call @@ [result |-> "RateLimited", status |-> NoStatus]
                /\ UNCHANGED <<user_info, binding>>
           ELSE IF p2.result # "Ok"
           THEN /\ last' = call @@ [result |-> p2.result, status |-> p2.status]
                /\ UNCHANGED <<user_info, binding>>
           ELSE /\ user_info' = IF p3.result = "Ok" THEN p2.user_info ELSE user_info
                /\ binding' = p3.binding
                /\ last' = call @@ [result |-> p3.result, status |-> p2.status]

\* Variant of Verifier_try_verify: the three phases share one transaction, so
\* the writes of the earlier phases are kept only when the call succeeds.
Verifier_try_verify_oneTransaction(discord_id, roblox_id, token, track) ==
    LET p1 == CheckCooldown(cooldown, discord_id, clock)
        p2 == CheckToken(token_ctx, user_info, roblox_id, token, clock)
        p3 == VerifyUser(binding, config.AllowReverification, discord_id, roblox_id, clock)
        call == [op |-> "try_verify", discord_id |-> discord_id, roblox_id |-> roblox_id]
    IN  /\ token_ctx # NoContext
        /\ UNCHANGED <<keys, token_ctx, config, clock, accepted, conc>>
        /\ IF ~p1.ok
           THEN /\ last' = call @@ [result |-> "RateLimited", status |-> NoStatus]
                /\ UNCHANGED <<cooldown, user_info, binding>>
           ELSE IF p2.result # "Ok"
           THEN /\ last' = call @@ [result |-> p2.result, status |-> p2.status]
                /\ UNCHANGED <<cooldown, user_info, binding>>
           ELSE IF p3.result # "Ok"
           THEN /\ last' = call @@ [result |-> p3.result, status |-> p2.status]
                /\ UNCHANGED <<cooldown, user_info, binding>>
           ELSE /\ cooldown' = p1.cooldown
                /\ user_info' = p2.user_info
                /\ binding' = p3.binding
                /\ last' = call @@ [result |-> "Ok", status |-> p2.status]

\* Verifier::try_verify(discord_id, roblox_id, token)
\* `track` switches the history variable `accepted` on.
Verifier_try_verify(discord_id, roblox_id, token, track) ==
    LET p1 == CheckCooldown(cooldown, discord_id, clock)
        p2 == CheckToken(token_ctx, user_info, roblox_id, token, clock)
        p3 == VerifyUser(binding, config.AllowReverification, discord_id, roblox_id, clock)
        call == [op |-> "try_verify", discord_id |-> discord_id, roblox_id |-> roblox_id]
    IN  /\ token_ctx # NoContext
        /\ cooldown' = p1.cooldown
        /\ UNCHANGED <<keys, token_ctx, config, clock, conc>>
        /\ IF ~p1.ok
           THEN /\ last' = call @@ [result |-> "RateLimited", status |-> NoStatus]
                /\ UNCHANGED <<user_info, binding, accepted>>
           ELSE /\ user_info' = p2.user_info
                /\ IF p2.result # "Ok"
                   THEN /\ last' = call @@ [result |-> p2.result, status |-> p2.status]
                        /\ UNCHANGED <<binding, accepted>>
                   ELSE /\ accepted' = IF track
                                        THEN accepted \cup {<<roblox_id, p2.status.key_id,
                                                              p2.status.epoch>>}
                                        ELSE accepted
                        /\ binding' = p3.binding
                        /\ last' = call @@ [result |-> p3.result, status |-> p2.status]

\* Variant of transaction_immediate: every statement commits by itself.
transaction_autocommit(before, ok, written) == written

\* conn.transaction_immediate(closure): the table after the call, `written`
\* being the table as the closure's statements left it and `ok` whether the
\* closure returned Ok. The writes of a closure that returns Err are
\* discarded.
transaction_immediate(before, ok, written) == IF ok THEN written ELSE before

\* The binding table as phase 3 has written it when its last statement, the
\* REPLACE, is reached: the clearing UPDATE has run on the path that has one.
BeforeReplace(tbl, allow_reverification, discord_id, roblox_id) ==
    IF allow_reverification /\ tbl[discord_id].exists
    THEN ClearBindings(tbl, roblox_id)
    ELSE tbl

\* Verifier::try_verify whose store fails: a statement's `?` returns Err from
\* the closure of the given phase. In phase 1 and 2 nothing of the phase is
\* written when a statement fails (the REPLACE is the only write); in phase 3
\* the failing statement is taken to be the REPLACE, the last one.
Verifier_try_verify_storeError(discord_id, roblox_id, token, phase) ==
    LET p1 == CheckCooldown(cooldown, discord_id, clock)
        p2 == CheckToken(token_ctx, user_info, roblox_id, token, clock)
        p3 == VerifyUser(binding, config.AllowReverification, discord_id, roblox_id, clock)
        call == [op |-> "try_verify", discord_id |-> discord_id, roblox_id |-> roblox_id,
                 result |-> "StoreError", phase |-> phase]
    IN  /\ token_ctx # NoContext
        /\ UNCHANGED <<keys, token_ctx, config, clock, accepted, conc>>
        /\ phase >= 2 => p1.ok
        /\ phase >= 3 => p2.result = "Ok" /\ p3.result = "Ok"
        /\ cooldown' = IF phase = 1
                       THEN transaction_immediate(cooldown, FALSE, cooldown)
                       ELSE transaction_immediate(cooldown, TRUE, p1.cooldown)
        /\ user_info' = IF phase = 1 THEN user_info
                        ELSE IF phase = 2
                        THEN transaction_immediate(user_info, FALSE, user_info)
                        ELSE transaction_immediate(user_info, TRUE, p2.user_info)
        /\ binding' = IF phase < 3 THEN binding
                      ELSE transaction_immediate(binding, FALSE,
                               BeforeReplace(binding, config.AllowReverification,
                                             discord_id, roblox_id))
        /\ last' = call @@ [status |-> IF phase = 1 THEN NoStatus ELSE p2.status]

\* The token texts a caller presents: text that is no token, six letters that
\* no key derives (key 0: a secret no row holds), and the tokens the stored
\* keys derive for the given users, the given number of epochs from now.
\* `junk` leaves the first two kinds out.
TokenTexts(users, offsets, junk) ==
    (IF junk THEN {Malformed} \cup {sha256_token(0, <<TOKEN_VERSION, u, 0>>) : u \in users}
             ELSE {}) \cup
    {make_token(p, u, current_epoch(p, clock) + i) : p \in keys, u \in users, i \in offsets}

TryVerifyOf(discord_ids, roblox_ids, offsets, junk, track) ==
    \E d \in discord_ids, u \in roblox_ids, t \in TokenTexts(roblox_ids, offsets, junk) :
        Verifier_try_verify(d, u, t, track)

FixedValidity == {cfg \in ShortCooldown : cfg.TokenValiditySeconds = 1}
NearEpochs == {0 - 2, 0 - 1, 0, 1, 2}

(***************************************************************************)
(* Spec: one chat account and one game account; construction on an empty   *)
(* database; verification attempts with tokens up to two epochs off,       *)
(* rotations, the reverification switch, time.                             *)
(***************************************************************************)
Init == InitWith({{}}, FixedValidity)

TryVerify == TryVerifyOf({"d1"}, {"r1"}, NearEpochs, TRUE, TRUE)

Rekey == \E force \in BOOLEAN : Verifier_rekey(force, MaxKeys)

SetReverification == SetConfig(FixedValidity)

Tick == TickTo(MaxClock)

Next == TryVerify \/ Rekey \/ SetReverification \/ Tick

Spec == Init /\ [][Next]_vars

(***************************************************************************)
(* SpecBind: two chat accounts and two game accounts under one key.        *)
(***************************************************************************)
TryBind == TryVerifyOf(DiscordIds, RobloxIds, {0}, FALSE, FALSE)

TickBind == TickTo(MaxBindClock)

NextBind == TryBind \/ SetReverification \/ TickBind

SpecBind == Init /\ [][NextBind]_vars

(***************************************************************************)
(* SpecKeys: rotations. Construction on any of the initial key tables;     *)
(* rekey(true), rekey(false), and verification attempts of one chat        *)
(* account for one game account.                                           *)
(***************************************************************************)
InitKeys == InitWith(InitialKeyTables, {cfg \in ShortCooldown : ~cfg.AllowReverification})

Rotate == \E force \in BOOLEAN : Verifier_rekey(force, MaxRotations)

TryToken == TryVerifyOf({"d1"}, {"r1"}, NearEpochs, TRUE, FALSE)

NextKeys == Rotate \/ TryToken

SpecKeys == InitKeys /\ [][NextKeys]_vars

(***************************************************************************)
(* SpecFresh: construction on an empty database or on one whose key has    *)
(* either version and either time increment; changes of                    *)
(* TokenValiditySeconds, rotations, time, and attempts with tokens up to   *)
(* two epochs off.                                                         *)
(***************************************************************************)
NoReverification == {cfg \in ShortCooldown : ~cfg.AllowReverification}

InitFresh == InitWith(InitialKeyTables, NoReverification)

Refresh == \E force \in BOOLEAN : Verifier_rekey(force, MaxFreshKeys)

SetValidity == SetConfig(NoReverification)

TickFresh == TickTo(MaxFreshClock)

TryFresh == TryVerifyOf({"d1"}, {"r1"}, {1, 2}, FALSE, FALSE)

NextFresh == Refresh \/ SetValidity \/ TickFresh \/ TryFresh

SpecFresh == InitFresh /\ [][NextFresh]_vars

(***************************************************************************)
(* SpecGate: a cooldown of two seconds, so that an attempt can be refused  *)
(* at a later second than the last counted one; the chat accounts try both *)
(* game accounts with current tokens and with text no key derives.         *)
(***************************************************************************)
LongCooldown ==
    {cfg \in Configs : /\ cfg.VerificationCooldownSeconds = 2
                       /\ cfg.TokenValiditySeconds = 1
                       /\ ~cfg.AllowReverification}

InitGate == InitWith({{}}, LongCooldown)

TryGate == TryVerifyOf(DiscordIds, {"r1"}, {0}, TRUE, FALSE)

TickGate == TickTo(MaxGateClock)

NextGate == TryGate \/ TickGate

SpecGate == InitGate /\ [][NextGate]_vars

(***************************************************************************)
(* SpecCodec: construction on a database whose key row holds any of the    *)
(* change_reason texts, then rotations, changes of TokenValiditySeconds    *)
(* and attempts.                                                           *)
(***************************************************************************)
ReasonTables ==
    {{StoredKey(1, inc, TOKEN_VERSION, text)} : inc \in Increments, text \in ReasonTexts}

InitCodec == InitWith(ReasonTables, NoReverification)

RekeyCodec == \E force \in BOOLEAN : Verifier_rekey(force, MaxCodecKeys)

SetCodecValidity == SetConfig(NoReverification)

TryCodec == TryVerifyOf({"d1"}, {"r1"}, {0}, FALSE, FALSE)

NextCodec == RekeyCodec \/ SetCodecValidity \/ TryCodec

SpecCodec == InitCodec /\ [][NextCodec]_vars

(***************************************************************************)
(* Calls on threads. A call is cut where it takes a lock and where another *)
(* thread's statements can come between its own; what runs inside one      *)
(* transaction with nothing to wait for is one step.                       *)
(***************************************************************************)
\* parking_lot::RwLock: read() waits for the writer, write() for everyone.
CanRead(lock) == lock.writer = NoThread
CanWrite(lock) == lock.writer = NoThread /\ lock.readers = {}

\* conn.transaction_immediate: the transaction begins when no other
\* transaction holds the store, and holds it until it ends.
CanBegin(holder) == holder = NoThread

Free(t) == threads[t].pc \in {"idle", "done"}

Returned(th) ==
    [op |-> "try_verify", discord_id |-> th.discord_id, roblox_id |-> th.roblox_id,
     result |-> th.result, status |-> th.status]

\* try_verify, phase 1: the call and its first transaction.
Thread_CheckCooldown(t, discord_id, roblox_id, token) ==
    LET p1 == CheckCooldown(cooldown, discord_id, clock)
        call == [Idle EXCEPT !.op = "try_verify", !.discord_id = discord_id,
                             !.roblox_id = roblox_id, !.token = token]
        refused == [call EXCEPT !.pc = "done", !.result = "RateLimited"]
    IN  /\ Free(t)
        /\ token_ctx # NoContext
        /\ CanBegin(store_txn)
        /\ cooldown' = p1.cooldown
        /\ threads' = [threads EXCEPT ![t] =
                          IF p1.ok THEN [call EXCEPT !.pc = "begin2"] ELSE refused]
        /\ last' = IF p1.ok THEN last ELSE Returned(refused)
        /\ UNCHANGED <<keys, token_ctx, user_info, binding, config, clock, accepted,
                       store_txn, rwlock>>

\* try_verify, phase 2: conn.transaction_immediate(
Thread_BeginCheckToken(t) ==
    /\ threads[t].pc = "begin2"
    /\ CanBegin(store_txn)
    /\ store_txn' = t
    /\ threads' = [threads EXCEPT ![t].pc = "read2"]
    /\ UNCHANGED <<keys, token_ctx, cooldown, user_info, binding, config, clock, accepted,
                   last, rwlock>>

\* Variant of Thread_ReadToken: the SELECT has a transaction of its own, which
\* ends before the REPLACE.
Thread_ReadToken_ownTransaction(t) ==
    LET th == threads[t]
    IN  /\ th.pc = "read2"
        /\ CanRead(rwlock)
        /\ rwlock' = [rwlock EXCEPT !.readers = @ \cup {t}]
        /\ store_txn' = NoThread
        /\ threads' = [threads EXCEPT ![t] =
              [th EXCEPT !.pc = "write2",
                         !.status = TokenContext_check_token(token_ctx, th.roblox_id,
                                                             th.token, clock),
                         !.seen = user_info[th.roblox_id]]]
        /\ UNCHANGED <<keys, token_ctx, cooldown, user_info, binding, config, clock,
                       accepted, last>>

\* try_verify, phase 2: self.token_ctx.read(), check_token and the SELECT of
\* the record.
Thread_ReadToken(t) ==
    LET th == threads[t]
    IN  /\ th.pc = "read2"
        /\ CanRead(rwlock)
        /\ rwlock' = [rwlock EXCEPT !.readers = @ \cup {t}]
        /\ threads' = [threads EXCEPT ![t] =
              [th EXCEPT !.pc = "write2",
                         !.status = TokenContext_check_token(token_ctx, th.roblox_id,
                                                             th.token, clock),
                         !.seen = user_info[th.roblox_id]]]
        /\ UNCHANGED <<keys, token_ctx, cooldown, user_info, binding, config, clock,
                       accepted, last, store_txn>>

\* try_verify, phase 2: the test on the record read, the REPLACE, the end of
\* the transaction and of the read lock.
Thread_WriteToken(t) ==
    LET th == threads[t]
        p2 == CheckToken(token_ctx, [user_info EXCEPT ![th.roblox_id] = th.seen],
                         th.roblox_id, th.token, clock)
        after == [th EXCEPT !.pc = IF p2.result = "Ok" THEN "verify3" ELSE "done",
                            !.result = p2.result]
    IN  /\ th.pc = "write2"
        /\ user_info' = IF p2.result = "Ok"
                        THEN [user_info EXCEPT ![th.roblox_id] = p2.user_info[th.roblox_id]]
                        ELSE user_info
        /\ store_txn' = NoThread
        /\ rwlock' = [rwlock EXCEPT !.readers = @ \ {t}]
        /\ threads' = [threads EXCEPT ![t] = after]
        /\ last' = IF p2.result = "Ok" THEN last ELSE Returned(after)
        /\ UNCHANGED <<keys, token_ctx, cooldown, binding, config, clock, accepted>>

\* try_verify, phase 3: its transaction, and the return.
Thread_VerifyUser(t) ==
    LET th == threads[t]
        p3 == VerifyUser(binding, config.AllowReverification, th.discord_id,
                         th.roblox_id, clock)
        after == [th EXCEPT !.pc = "done", !.result = p3.result]
    IN  /\ th.pc = "verify3"
        /\ CanBegin(store_txn)
        /\ binding' = p3.binding
        /\ threads' = [threads EXCEPT ![t] = after]
        /\ last' = Returned(after)
        /\ UNCHANGED <<keys, token_ctx, cooldown, user_info, config, clock, accepted,
                       store_txn, rwlock>>

\* Verifier::rekey: self.token_ctx.write() and the read of current.id.
Thread_RekeyLock(t, force, maxKeys) ==
    /\ Free(t)
    /\ token_ctx # NoContext
    /\ Cardinality(keys) < maxKeys
    /\ CanWrite(rwlock)
    /\ rwlock' = [rwlock EXCEPT !.writer = t]
    /\ threads' = [threads EXCEPT ![t] =
                      [Idle EXCEPT !.pc = "rekey", !.op = "rekey", !.force = force,
                                   !.cur_id = token_ctx.current.id]]
    /\ UNCHANGED <<keys, token_ctx, cooldown, user_info, binding, config, clock, accepted,
                   last, store_txn>>

\* Verifier::rekey: the transaction of TokenContext::rekey or from_db, the
\* assignment to *lock, the return of the write lock and of the call.
Thread_RekeyStore(t) ==
    LET th == threads[t]
        r == IF th.force THEN TokenContext_rekey(keys, config.TokenValiditySeconds)
                         ELSE from_db(keys, config.TokenValiditySeconds)
        changed == th.cur_id # r.val.ctx.current.id
    IN  /\ th.pc = "rekey"
        /\ CanBegin(store_txn)
        /\ r.ok
        /\ keys' = r.val.keys
        /\ token_ctx' = r.val.ctx
        /\ rwlock' = [rwlock EXCEPT !.writer = NoThread]
        /\ threads' = [threads EXCEPT ![t] =
                          [th EXCEPT !.pc = "done", !.ret = r.val.ctx,
                                     !.result = IF changed THEN "true" ELSE "false"]]
        /\ last' = [op |-> "rekey", ok |-> TRUE, force |-> th.force, stored |-> keys,
                    changed |-> changed]
        /\ UNCHANGED <<cooldown, user_info, binding, config, clock, accepted, store_txn>>

\* TokenContext::from_db called on the store by a thread that holds no lock of
\* this Verifier (the construction of another Verifier): the call, with the
\* key table as it is when the call is made.
Thread_FromDbCall(t, time_increment, maxKeys) ==
    /\ Free(t)
    /\ Cardinality(keys) < maxKeys
    /\ threads' = [threads EXCEPT ![t] =
                      [Idle EXCEPT !.pc = "select", !.op = "from_db",
                                   !.time_increment = time_increment, !.at_call = keys]]
    /\ UNCHANGED <<keys, token_ctx, cooldown, user_info, binding, config, clock, accepted,
                   last, store_txn, rwlock>>

\* Variant of Thread_FromDbSelect: from_db_internal has a transaction of its
\* own, which ends before new_in_db.
Thread_FromDbSelect_ownTransaction(t) ==
    LET th == threads[t]
        x == from_db_internal(keys)
        reason == from_db_reason(x.val, th.time_increment)
    IN  /\ th.pc = "select"
        /\ CanBegin(store_txn)
        /\ x.ok
        /\ threads' = [threads EXCEPT ![t] =
                          IF reason.some
                          THEN [th EXCEPT !.pc = "insert", !.reason = reason]
                          ELSE [th EXCEPT !.pc = "done", !.ret = x.val.val]]
        /\ UNCHANGED <<keys, token_ctx, cooldown, user_info, binding, config, clock,
                       accepted, last, rwlock, store_txn>>

\* from_db: conn.transaction_immediate(, from_db_internal and the branch; the
\* branch that creates no key ends the transaction and returns.
Thread_FromDbSelect(t) ==
    LET th == threads[t]
        x == from_db_internal(keys)
        reason == from_db_reason(x.val, th.time_increment)
    IN  /\ th.pc = "select"
        /\ CanBegin(store_txn)
        /\ x.ok
        /\ IF reason.some
           THEN /\ store_txn' = t
                /\ threads' = [threads EXCEPT ![t] =
                                  [th EXCEPT !.pc = "insert", !.reason = reason]]
           ELSE /\ UNCHANGED store_txn
                /\ threads' = [threads EXCEPT ![t] =
                                  [th EXCEPT !.pc = "done", !.ret = x.val.val]]
        /\ UNCHANGED <<keys, token_ctx, cooldown, user_info, binding, config, clock,
                       accepted, last, rwlock>>

\* new_in_db: the INSERT.
Thread_FromDbInsert(t) ==
    LET th == threads[t]
    IN  /\ th.pc = "insert"
        /\ keys' = InsertKey(keys, th.time_increment, th.reason.val)
        /\ threads' = [threads EXCEPT ![t] =
                          [th EXCEPT !.pc = "reload", !.inserted = NextKeyId(keys)]]
        /\ UNCHANGED <<token_ctx, cooldown, user_info, binding, config, clock, accepted,
                       last, store_txn, rwlock>>

\* new_in_db: from_db_internal, then the end of the transaction and the return.
Thread_FromDbReload(t) ==
    LET th == threads[t]
        x == from_db_internal(keys)
    IN  /\ th.pc = "reload"
        /\ x.ok
        /\ store_txn' = NoThread
        /\ threads' = [threads EXCEPT ![t] = [th EXCEPT !.pc = "done", !.ret = x.val.val]]
        /\ UNCHANGED <<keys, token_ctx, cooldown, user_info, binding, config, clock,
                       accepted, last, rwlock>>

(***************************************************************************)
(* SpecThreads: two threads call try_verify, for either chat account and   *)
(* one game account with a current token, and rekey.                       *)
(***************************************************************************)
InitThreads == InitWith({{}}, {cfg \in FixedValidity : ~cfg.AllowReverification})

Attempt ==
    \E t \in Threads, d \in DiscordIds, token \in TokenTexts({"r1"}, {0}, FALSE) :
        Thread_CheckCooldown(t, d, "r1", token)

BeginCheckToken == \E t \in Threads : Thread_BeginCheckToken(t)

ReadToken == \E t \in Threads : Thread_ReadToken(t)

WriteToken == \E t \in Threads : Thread_WriteToken(t)

BindUser == \E t \in Threads : Thread_VerifyUser(t)

RekeyLock == \E t \in Threads, force \in BOOLEAN : Thread_RekeyLock(t, force, MaxThreadKeys)

RekeyStore == \E t \in Threads : Thread_RekeyStore(t)

NextThreads ==
    Attempt \/ BeginCheckToken \/ ReadToken \/ WriteToken \/ BindUser \/ RekeyLock
    \/ RekeyStore

SpecThreads == InitThreads /\ [][NextThreads]_vars

(***************************************************************************)
(* SpecAppend: two threads call TokenContext::from_db on the store, with   *)
(* either time increment, on a key table of any first key.                 *)
(***************************************************************************)
InitAppend == InitWith(InitialKeyTables, NoReverification)

FromDbCall ==
    \E t \in Threads, time_increment \in Increments :
        Thread_FromDbCall(t, time_increment, MaxAppendKeys)

FromDbSelect == \E t \in Threads : Thread_FromDbSelect(t)

FromDbInsert == \E t \in Threads : Thread_FromDbInsert(t)

FromDbReload == \E t \in Threads : Thread_FromDbReload(t)

NextAppend == FromDbCall \/ FromDbSelect \/ FromDbInsert \/ FromDbReload

SpecAppend == InitAppend /\ [][NextAppend]_vars

(***************************************************************************)
(* SpecFail: attempts of two chat accounts for one game account, with      *)
(* current tokens and with text no key derives, any of which the store may *)
(* fail in any phase; the reverification switch; time.                     *)
(***************************************************************************)
Phases == {1, 2, 3}

InitFail == InitWith({{}}, FixedValidity)

TryFail == TryVerifyOf(DiscordIds, {"r1"}, {0}, TRUE, FALSE)

StoreFails ==
    \E d \in DiscordIds, t \in TokenTexts({"r1"}, {0}, TRUE), phase \in Phases :
        Verifier_try_verify_storeError(d, "r1", t, phase)

SwitchFail == SetConfig(FixedValidity)

TickFail == TickTo(MaxFailClock)

NextFail == TryFail \/ StoreFails \/ SwitchFail \/ TickFail

SpecFail == InitFail /\ [][NextFail]_vars

(***************************************************************************)
(* Claims                                                                  *)
(***************************************************************************)
\* The step just taken is a try_verify call (every action rewrites `last`).
IsTryVerify == last'.op = "try_verify"
Passed1 == IsTryVerify /\ last'.result # "RateLimited"
Classified(tag) == IsTryVerify /\ last'.status.tag = tag

\* C1: once phase 2 has recorded a (key_id, epoch) pair for a game account, a
\* later try_verify for that account whose token classifies to the same pair
\* fails ReplayedToken and records nothing.
C1_NoPairAcceptedTwice ==
    [][Classified("Verified") /\
       <<last'.roblox_id, last'.status.key_id, last'.status.epoch>> \in accepted
       => /\ last'.result = "ReplayedToken"
          /\ user_info' = user_info
          /\ accepted' = accepted]_vars

\* A pair recorded earlier, and since superseded by a newer one, is presented
\* again and refused.
C1_Witness ==
    /\ last.op = "try_verify"
    /\ last.result = "ReplayedToken"
    /\ <<last.roblox_id, last.status.key_id, last.status.epoch>> \in accepted
    /\ user_info[last.roblox_id].last_key_id > last.status.key_id
       \/ user_info[last.roblox_id].last_key_epoch > last.status.epoch
    /\ Cardinality(accepted) >= 2

\* C2: in phase 2 a Verified{key_id, epoch} fails ReplayedToken and leaves the
\* record alone when a record exists with last_key_id >= key_id and
\* last_key_epoch >= epoch; in every other Verified case the record becomes
\* (key_id, epoch, now). With (5,100) recorded, (5,100) and (4,99) are
\* refused and (5,101) is not.
C2_ReplayRule ==
    [][/\ AlreadyUsed(5, 100, 5, 100) /\ AlreadyUsed(5, 100, 4, 99)
       /\ ~AlreadyUsed(5, 100, 5, 101)
       /\ Classified("Verified") =>
            LET u == last'.roblox_id
                k == last'.status.key_id
                e == last'.status.epoch
                rec == user_info[u]
            IN  IF rec.exists /\ rec.last_key_id >= k /\ rec.last_key_epoch >= e
                THEN last'.result = "ReplayedToken" /\ user_info' = user_info
                ELSE /\ last'.result # "ReplayedToken"
                     /\ user_info' = [user_info EXCEPT ![u] =
                                         [exists |-> TRUE, last_key_id |-> k,
                                          last_key_epoch |-> e, last_updated |-> clock]]]_vars

\* A token of an older window than the recorded one is refused, and the
\* record still holds the newer pair.
C2_Witness ==
    /\ last.op = "try_verify"
    /\ last.result = "ReplayedToken"
    /\ user_info[last.roblox_id].last_key_id = last.status.key_id
    /\ user_info[last.roblox_id].last_key_epoch > last.status.epoch

\* C4: the gate of phase 1 refuses an attempt (RateLimited) exactly when the
\* chat account has a record with attempt_count >= the attempt limit and
\* now < last_attempt + cooldown; with no record, with a lower count, or from
\* last_attempt + cooldown on, the attempt passes the gate.
C4_Gate ==
    [][IsTryVerify =>
        LET rec == cooldown[last'.discord_id]
            closed == /\ rec.exists
                      /\ rec.attempt_count >= VerificationAttemptLimit
                      /\ clock < rec.last_attempt + VerificationCooldownSeconds
        IN  (last'.result = "RateLimited") <=> closed]_vars

\* An account that had reached the limit passes the gate again: its count is
\* above the limit after an attempt that was not refused.
C4_Witness ==
    /\ last.op = "try_verify"
    /\ last.result # "RateLimited"
    /\ cooldown[last.discord_id].attempt_count > VerificationAttemptLimit

\* C5: when the record has attempt_count >= the attempt limit and the cooldown
\* has expired, the attempt that follows stores attempt_count = 1.
C5_CounterResets ==
    [][IsTryVerify =>
        LET rec == cooldown[last'.discord_id]
        IN  /\ rec.exists
            /\ rec.attempt_count >= VerificationAttemptLimit
            /\ clock >= rec.last_attempt + VerificationCooldownSeconds
            => cooldown'[last'.discord_id].attempt_count = 1]_vars

Reached3 == IsTryVerify /\ last'.result \in {"Ok", "AlreadyVerified", "Conflict", "TooSoon"}
BoundTo(tbl, roblox_id) == {d \in DOMAIN tbl : tbl[d].exists /\ tbl[d].roblox_user_id = roblox_id}

\* C3: no two chat accounts are bound to the same game account.
C3_OneChatPerGame ==
    \A u \in RobloxIds : Cardinality(BoundTo(binding, u)) <= 1

\* C6: with reverification disabled, phase 3 fails AlreadyVerified when the
\* chat account is bound to a game account, else fails Conflict when another
\* chat account is bound to the requested game account, both without touching
\* the binding table; otherwise it writes (chat account, game account, now).
C6_NoReverification ==
    [][Reached3 /\ ~config.AllowReverification =>
        LET d == last'.discord_id
            u == last'.roblox_id
            bound == binding[d].exists /\ binding[d].roblox_user_id # NULL
            others == BoundTo(binding, u) \ {d}
        IN  IF bound
            THEN last'.result = "AlreadyVerified" /\ binding' = binding
            ELSE IF others # {}
            THEN last'.result = "Conflict" /\ binding' = binding
            ELSE /\ last'.result = "Ok"
                 /\ binding' = [binding EXCEPT ![d] =
                                   [exists |-> TRUE, roblox_user_id |-> u,
                                    last_updated |-> clock]]]_vars

\* An unbound chat account is refused a game account another one holds.
C6_Witness ==
    /\ last.op = "try_verify"
    /\ last.result = "Conflict"
    /\ ~config.AllowReverification
    /\ ~binding[last.discord_id].exists
    /\ BoundTo(binding, last.roblox_id) # {}

\* C7: with reverification enabled and a binding row last updated at t, phase 3
\* fails TooSoon before t + timeout and leaves the table alone; from t + timeout
\* on it succeeds, the chat account is bound to the requested game account, and
\* the game account it was bound to before is bound to no chat account.
C7_Reverification ==
    [][Reached3 /\ config.AllowReverification /\ binding[last'.discord_id].exists =>
        LET d == last'.discord_id
            u == last'.roblox_id
            before == binding[d].roblox_user_id
        IN  IF clock < binding[d].last_updated + ReverificationTimeoutSeconds
            THEN last'.result = "TooSoon" /\ binding' = binding
            ELSE /\ last'.result = "Ok"
                 /\ binding'[d].roblox_user_id = u
                 /\ (before # NULL /\ before # u) => BoundTo(binding', before) = {}]_vars

HistoryIds == {token_ctx.history[i].id : i \in 1..Len(token_ctx.history)}
Newest(rows) == CHOOSE r \in rows : \A q \in rows : q.id <= r.id
Oldest(rows) == CHOOSE r \in rows : \A q \in rows : r.id <= q.id

\* C8: in the KeyContext, current.id is greater than every id in history,
\* history is ordered newest first, it has at most HISTORY_COUNT entries, and
\* current is the highest-id row of the key table.
C8_KeyContext ==
    /\ \A i \in 1..Len(token_ctx.history) : token_ctx.current.id > token_ctx.history[i].id
    /\ \A i, j \in 1..Len(token_ctx.history) :
          i < j => token_ctx.history[i].id > token_ctx.history[j].id
    /\ Len(token_ctx.history) <= HISTORY_COUNT
    /\ Ok(token_ctx.current) = from_sql_row(Newest(keys))

\* A rotation on a table of more than 1 + HISTORY_COUNT keys: the history is
\* full and the oldest key is left out.
C8_Witness ==
    /\ last.op = "rekey"
    /\ last.changed
    /\ Cardinality(keys) > 1 + HISTORY_COUNT
    /\ Len(token_ctx.history) = HISTORY_COUNT

\* The tokens key p derives for the user that check under it now.
TokensOf(p, user) == {make_token(p, user, current_epoch(p, clock) + i) : i \in {0 - 1, 0, 1}}
Classify(user, token) == TokenContext_check_token(token_ctx, user, token, clock)
SecondOldest(rows) == Oldest(rows \ {Oldest(rows)})

\* C9 as stated: with HISTORY_COUNT + 2 keys created, the history holds exactly
\* HISTORY_COUNT entries and the tokens of either of the two oldest keys
\* classify as NotVerified.
C9_TwoOldestDropped ==
    Cardinality(keys) = HISTORY_COUNT + 2 =>
        /\ Len(token_ctx.history) = HISTORY_COUNT
        /\ \A u \in RobloxIds :
              \A t \in TokensOf(Oldest(keys), u) \cup TokensOf(SecondOldest(keys), u) :
                  Classify(u, t) = NotVerified

\* C9 amended: with HISTORY_COUNT + 2 keys created, the history holds exactly
\* HISTORY_COUNT entries; the tokens of the oldest key classify as NotVerified,
\* those of the second oldest, still in the history, as Outdated.
C9_OldestDropped ==
    Cardinality(keys) = HISTORY_COUNT + 2 =>
        /\ Len(token_ctx.history) = HISTORY_COUNT
        /\ \A u \in RobloxIds :
              /\ \A t \in TokensOf(Oldest(keys), u) : Classify(u, t) = NotVerified
              /\ \A t \in TokensOf(SecondOldest(keys), u) :
                    Classify(u, t) = Outdated(token_ctx.current.change_reason)

\* HISTORY_COUNT + 2 keys, the last one just created, and a token of the
\* second oldest key refused as stale.
C9_Witness ==
    /\ Cardinality(keys) = HISTORY_COUNT + 2
    /\ SecondOldest(keys).id \in HistoryIds
    /\ Oldest(keys).id \notin HistoryIds
    /\ last.op = "try_verify"
    /\ last.result = "StaleVerifier"

\* The token checks under key p for the user now (one epoch of tolerance).
ChecksUnder(p, user, token) == token \in TokensOf(p, user)

\* C10: a well-formed token that does not check under the current key and
\* checks under a key of the history classifies as Outdated with the reason
\* of the current key, and the try_verify presenting it fails StaleVerifier
\* and writes neither the replay record nor the binding.
C10_Outdated ==
    [][Passed1 =>
        LET d == last'.discord_id
            u == last'.roblox_id
        IN  \A i \in 1..Len(token_ctx.history) :
              \A t \in TokensOf(token_ctx.history[i], u) :
                 /\ Token_from_str(t).some
                 /\ ~ChecksUnder(token_ctx.current, u, t)
                 /\ Verifier_try_verify(d, u, t, FALSE)
                 => /\ last'.status = Outdated(token_ctx.current.change_reason)
                    /\ last'.result = "StaleVerifier"
                    /\ user_info' = user_info
                    /\ binding' = binding]_vars

\* A stale token refused with the current key's reason, which is not the
\* reason of any key in the history.
C10_Witness ==
    /\ last.op = "try_verify"
    /\ last.result = "StaleVerifier"
    /\ last.status.reason = token_ctx.current.change_reason
    /\ Len(token_ctx.history) >= 2
    /\ \A i \in 1..Len(token_ctx.history) :
          token_ctx.history[i].change_reason # token_ctx.current.change_reason


\* C11: a token derived for window w under a key is matched by that key's
\* check, which returns w, while the current window is w - 1, w or w + 1, and
\* is not matched while the current window is w - 2 or w + 2. Stated for every
\* stored key, at the current time, for the five windows around the current
\* one.
C11_WindowTolerance ==
    \A row \in keys, u \in RobloxIds, i \in NearEpochs :
        LET p == from_sql_row(row).val
            w == current_epoch(p, clock) + i
            r == TokenParameters_check_token(p, u, make_token(p, u, w), clock)
        IN  IF i \in {0 - 1, 0, 1} THEN r = Some(w) ELSE r = None

\* An attempt whose token was derived for the window after the current one
\* was matched at that window, with a key whose windows are two seconds long.
C11_Witness ==
    /\ last.op = "try_verify"
    /\ last.result = "Ok"
    /\ token_ctx.current.time_increment = 2
    /\ clock > 1
    /\ last.status.epoch = current_epoch(token_ctx.current, clock) + 1

\* The outcome of TokenContext::from_db on the table `tbl`: one row appended
\* with the given reason, which is the current key of the context returned.
Appended(tbl, reason) ==
    /\ tbl \subseteq keys
    /\ Cardinality(keys \ tbl) = 1
    /\ \A row \in keys \ tbl :
           /\ \A q \in tbl : q.id < row.id
           /\ row.time_increment = config.TokenValiditySeconds
           /\ row.version = TOKEN_VERSION
           /\ row.change_reason = to_sql(reason)
           /\ Ok(token_ctx.current) = from_sql_row(row)

Unchanged(tbl) ==
    /\ keys = tbl
    /\ Ok(token_ctx.current) = from_sql_row(Newest(tbl))

IsFromDb == (last.op = "new" \/ (last.op = "rekey" /\ ~last.force)) /\ last.ok

\* C12 as the claim states it: Verifier::new and rekey(false) append a key
\* with reason InitialKey on an empty table; otherwise with reason
\* OutdatedVersion when the newest key's version is not TOKEN_VERSION, also
\* when its time increment differs; otherwise with reason
\* TimeIncrementChanged when its time increment differs from
\* TokenValiditySeconds; otherwise they append nothing.
C12_VersionFirst ==
    IsFromDb =>
        LET tbl == last.stored
        IN  IF tbl = {} THEN Appended(tbl, InitialKey)
            ELSE IF Newest(tbl).version # TOKEN_VERSION
            THEN Appended(tbl, OutdatedVersion)
            ELSE IF Newest(tbl).time_increment # config.TokenValiditySeconds
            THEN Appended(tbl, TimeIncrementChanged)
            ELSE Unchanged(tbl)

\* C12, amended: Verifier::new and rekey(false) append a key with reason
\* InitialKey on an empty table; otherwise with reason TimeIncrementChanged
\* when the newest key's time increment differs from TokenValiditySeconds,
\* also when its version is not TOKEN_VERSION; otherwise with reason
\* OutdatedVersion when its version is not TOKEN_VERSION; otherwise they
\* append nothing and return the stored context.
C12_IncrementFirst ==
    IsFromDb =>
        LET tbl == last.stored
        IN  IF tbl = {} THEN Appended(tbl, InitialKey)
            ELSE IF Newest(tbl).time_increment # config.TokenValiditySeconds
            THEN Appended(tbl, TimeIncrementChanged)
            ELSE IF Newest(tbl).version # TOKEN_VERSION
            THEN Appended(tbl, OutdatedVersion)
            ELSE Unchanged(tbl)

\* Construction found a key of an old version whose time increment also
\* differs from the configured one.
C12_Witness ==
    /\ last.op = "new"
    /\ last.ok
    /\ last.stored # {}
    /\ Newest(last.stored).version # TOKEN_VERSION
    /\ Newest(last.stored).time_increment # config.TokenValiditySeconds
    /\ token_ctx.current.change_reason = TimeIncrementChanged

\* C13: rekey(force) returns true exactly when the current key's id after the
\* call differs from the one before it; rekey(true) appends exactly one key,
\* with reason ManualRekey and an id above every stored id, makes it the
\* current key and returns true; rekey(false) on a current key of
\* TOKEN_VERSION and of the configured time increment appends nothing and
\* returns false; a rekey(false) that directly follows a rekey(false) returns
\* false.
C13_Rekey ==
    [][(last'.op = "rekey" /\ last'.ok) =>
        /\ last'.changed <=> (token_ctx'.current.id # token_ctx.current.id)
        /\ last'.force =>
              /\ keys \subseteq keys'
              /\ Cardinality(keys' \ keys) = 1
              /\ \A row \in keys' \ keys :
                     /\ \A q \in keys : q.id < row.id
                     /\ from_sql_row(row) = Ok(token_ctx'.current)
                     /\ token_ctx'.current.change_reason = ManualRekey
              /\ last'.changed
        /\ (/\ ~last'.force
            /\ token_ctx.current.version = TOKEN_VERSION
            /\ token_ctx.current.time_increment = config.TokenValiditySeconds) =>
              /\ keys' = keys
              /\ token_ctx' = token_ctx
              /\ ~last'.changed
        /\ (last.op = "rekey" /\ last.ok /\ ~last.force /\ ~last'.force) =>
              ~last'.changed]_vars

\* A rekey(false) returned false after a rekey(true) had appended a key.
C13_Witness ==
    /\ last.op = "rekey"
    /\ last.ok
    /\ ~last.force
    /\ ~last.changed
    /\ \E row \in keys : row.change_reason = to_sql(ManualRekey)


\* C19: an attempt refused by the gate writes nothing: the cooldown table
\* (the caller's attempt_count and last_attempt with it), the anti-replay
\* table, the binding table and the key table are as before the call.
C19_RateLimitedWritesNothing ==
    [][(IsTryVerify /\ last'.result = "RateLimited") =>
        /\ cooldown' = cooldown
        /\ user_info' = user_info
        /\ binding' = binding
        /\ keys' = keys]_vars

\* An attempt was refused at a later second than the caller's last counted
\* attempt.
C19_Witness ==
    /\ last.op = "try_verify"
    /\ last.result = "RateLimited"
    /\ cooldown[last.discord_id].attempt_count = VerificationAttemptLimit
    /\ cooldown[last.discord_id].last_attempt < clock


FailedIn(k) ==
    /\ IsTryVerify
    /\ \/ last'.result = "StoreError" /\ last'.phase = k
       \/ k = 1 /\ last'.result = "RateLimited"
       \/ k = 2 /\ last'.result \in {"MalformedToken", "InvalidToken", "StaleVerifier",
                                     "ReplayedToken"}
       \/ k = 3 /\ last'.result \in {"AlreadyVerified", "Conflict", "TooSoon"}

Counted(tbl, d) ==
    [tbl EXCEPT ![d] = [exists |-> TRUE, last_attempt |-> clock,
                        attempt_count |-> IF tbl[d].exists THEN tbl[d].attempt_count + 1
                                          ELSE 1]]

Recorded(tbl, u, status) ==
    [tbl EXCEPT ![u] = [exists |-> TRUE, last_key_id |-> status.key_id,
                        last_key_epoch |-> status.epoch, last_updated |-> clock]]

\* C14: a try_verify that fails in phase k, by a refusal or by an error of
\* the store, leaves the writes of the phases before k committed and writes
\* nothing in phase k or after it: a failure in phase 1 changes no table; a
\* call that passes the gate stores attempt_count + 1 (1 without a record) and
\* last_attempt = now whatever phase 2 and 3 do; a failure in phase 2 leaves
\* the anti-replay and binding tables alone; a failure in phase 3 keeps the
\* record phase 2 wrote and leaves the binding table as it was, with no row
\* cleared.
C14_PrefixCommit ==
    [][IsTryVerify =>
        LET d == last'.discord_id
            u == last'.roblox_id
        IN  /\ FailedIn(1) => cooldown' = cooldown /\ user_info' = user_info
                              /\ binding' = binding
            /\ ~FailedIn(1) => cooldown' = Counted(cooldown, d)
            /\ FailedIn(2) => user_info' = user_info /\ binding' = binding
            /\ FailedIn(3) => /\ user_info' = Recorded(user_info, u, last'.status)
                              /\ binding' = binding
            /\ keys' = keys]_vars

\* The store failed in phase 3 at the REPLACE, after a clearing UPDATE that
\* had a row to clear, and that row is still bound.
C14_Witness ==
    /\ last.op = "try_verify"
    /\ last.result = "StoreError"
    /\ last.phase = 3
    /\ config.AllowReverification
    /\ binding[last.discord_id].exists
    /\ BoundTo(binding, last.roblox_id) # {}
    /\ user_info[last.roblox_id].last_updated = clock
    /\ cooldown[last.discord_id].attempt_count >= 2


RefusedIn3 == {"AlreadyVerified", "Conflict", "TooSoon"}

\* C20: an attempt that passes phase 2 and is refused in phase 3
\* (AlreadyVerified, Conflict or TooSoon) leaves the anti-replay record of the
\* game account holding the (key_id, epoch) pair of its token; an attempt for
\* the same game account that follows it and classifies to the same pair
\* fails ReplayedToken and changes neither the record nor the bindings.
C20_TokenConsumed ==
    [][IsTryVerify =>
        LET u == last'.roblox_id
        IN  /\ last'.result \in RefusedIn3 =>
                /\ user_info'[u].exists
                /\ user_info'[u].last_key_id = last'.status.key_id
                /\ user_info'[u].last_key_epoch = last'.status.epoch
            /\ (/\ last.op = "try_verify"
                /\ last.result \in RefusedIn3
                /\ last.roblox_id = u
                /\ last'.status = last.status) =>
                /\ last'.result = "ReplayedToken"
                /\ user_info' = user_info
                /\ binding' = binding]_vars

\* A token is refused as replayed in the second in which its pair was
\* recorded, while reverification is disabled and no binding row was written
\* in that second: the attempt that recorded the pair was refused in phase 3.
C20_Witness ==
    /\ last.op = "try_verify"
    /\ last.result = "ReplayedToken"
    /\ user_info[last.roblox_id].last_key_id = last.status.key_id
    /\ user_info[last.roblox_id].last_key_epoch = last.status.epoch
    /\ user_info[last.roblox_id].last_updated = clock
    /\ ~config.AllowReverification
    /\ ~binding[last.discord_id].exists
    /\ BoundTo(binding, last.roblox_id) # {}
    /\ \A d \in DiscordIds : binding[d].exists => binding[d].last_updated < clock


\* C17: decoding the stored text of a RekeyReason r yields r, Unknown(text)
\* included, and a key row whose stored reason text is none of the known
\* names loads, with reason Unknown(text): Verifier::new on such a table
\* succeeds, and what it finds stays in the key table.
C17_ReasonSurvivesStorage ==
    /\ \A r \in RekeyReason : from_sql(to_sql(r)) = Ok(r)
    /\ \A text \in ReasonTexts \ KnownReasonTexts : from_sql(text) = Ok(Unknown(text))
    /\ last.op = "new" => /\ last.ok
                          /\ last.stored \subseteq keys
                          /\ \A row \in last.stored : \E reason \in RekeyReason :
                                 from_sql_row(row) = Ok([row EXCEPT !.change_reason = reason])


\* A try_verify call that is past phase 2 and has not returned from it.
Passed2(th) ==
    /\ th.op = "try_verify"
    /\ th.pc = "verify3" \/ (th.pc = "done" /\ th.result \in {"Ok"} \cup RefusedIn3)

Refused2(th) == th.op = "try_verify" /\ th.pc = "done" /\ th.result = "ReplayedToken"

\* C15: of two try_verify calls on different threads for the same game
\* account whose tokens classify to the same (key_id, epoch) pair, at most
\* one passes phase 2, and when one has passed it the other, once through
\* phase 2, has failed ReplayedToken.
C15_OnePassesPhase2 ==
    \A a, b \in Threads :
        (/\ a # b
         /\ Passed2(threads[a])
         /\ threads[b].op = "try_verify"
         /\ threads[b].pc \in {"verify3", "done"}
         /\ threads[b].status.tag = "Verified"
         /\ threads[b].roblox_id = threads[a].roblox_id
         /\ threads[b].status = threads[a].status)
        => Refused2(threads[b])

\* One call has passed phase 2 and is not yet in phase 3, and the other, which
\* presented the same token, has meanwhile failed ReplayedToken.
C15_Witness ==
    \E a, b \in Threads :
        /\ a # b
        /\ threads[a].pc = "verify3"
        /\ Refused2(threads[b])
        /\ threads[b].token = threads[a].token
        /\ threads[b].status = threads[a].status

Stale(tbl, time_increment) ==
    from_db_reason(from_db_internal(tbl).val, time_increment).some

\* C16: a from_db call that creates a key returns a context whose current key
\* is the row that call inserted; and when two from_db calls with the same
\* time increment are made on the same key table, which that time increment
\* makes stale, exactly one key is appended to it by the time both have
\* returned, and both return a context whose current key is that key.
C16_OneKeyAppended ==
    /\ \A t \in Threads :
           (threads[t].op = "from_db" /\ threads[t].pc = "done"
            /\ threads[t].inserted # 0)
           => threads[t].ret.current.id = threads[t].inserted
    /\ \A a, b \in Threads :
           (/\ a # b
            /\ threads[a].op = "from_db" /\ threads[a].pc = "done"
            /\ threads[b].op = "from_db" /\ threads[b].pc = "done"
            /\ threads[a].time_increment = threads[b].time_increment
            /\ threads[a].at_call = threads[b].at_call
            /\ Stale(threads[a].at_call, threads[a].time_increment))
           => /\ threads[a].at_call \subseteq keys
              /\ Cardinality(keys \ threads[a].at_call) = 1
              /\ \A row \in keys \ threads[a].at_call :
                     /\ Ok(threads[a].ret.current) = from_sql_row(row)
                     /\ Ok(threads[b].ret.current) = from_sql_row(row)

\* Two calls made on the same stale table have returned; one of them inserted
\* the key and the other found it.
C16_Witness ==
    \E a, b \in Threads :
        /\ a # b
        /\ threads[a].op = "from_db" /\ threads[a].pc = "done"
        /\ threads[b].op = "from_db" /\ threads[b].pc = "done"
        /\ threads[a].time_increment = threads[b].time_increment
        /\ threads[a].at_call = threads[b].at_call
        /\ Stale(threads[a].at_call, threads[a].time_increment)
        /\ threads[a].inserted # 0
        /\ threads[b].inserted = 0
        /\ threads[b].ret = threads[a].ret

Waiting(t) ==
    \/ threads[t].pc \in {"begin2", "verify3", "rekey"} /\ ~CanBegin(store_txn)
    \/ threads[t].pc = "read2" /\ ~CanRead(rwlock)

\* C18: while a try_verify or rekey call is in progress, some call in progress
\* can take its next step: the calls never all wait for one another.
C18_NoDeadlock ==
    (\E t \in Threads : ~Free(t)) => \E t \in Threads : ~Free(t) /\ ~Waiting(t)

====
